---- MODULE Spec2Model ----
(***************************************************************************)
(* State-machine model of the voice translation room client:               *)
(*   - RoomPage (room variant with channel subscription, and the variant   *)
(*     that applies the response locally),                                 *)
(*   - the useAudioRecorder hook (microphone, MediaRecorder, analyser),    *)
(*   - the /api/translate route handler.                                   *)
(* One action per handler or callback; the browser, the network, the       *)
(* channel transport and the user are the environment.                     *)
(***************************************************************************)
EXTENDS Integers, Sequences, FiniteSets, TLC

\* ------------------------------------------------------------------ bounds
\* Runs of the subscription effect (mounts plus language switches).
MaxEffects == 3
\* Distinct utterance ids carried by channel events.
MaxIds == 2
\* startRecording calls in one run of the room with its channel.
MaxRoomStarts == 1
\* startRecording calls (microphone acquisitions) on the client.
MaxStarts == 2
\* Timeslice chunks one recorder emits before it is stopped.
MaxChunks == 1
\* Frequency bins of one analyser sample (frequencyBinCount).
NumBins == 2
\* Requests sent straight to the route (by any client) in one run.
MaxPosts == 2
\* RoomPage instances mounted in one run.
MaxViews == 2

\* --------------------------------------------------------------- constants
Languages == {"ko", "vi"}

Modes == {"room", "local"}

NoBlob == "null"

SomeBlob == "blob"

\* Payload of a 'translated-message' event, as far as the handler reads it.
Events == [id : 1..MaxIds, sourceLang : Languages]

VARIABLES
    mode,          \* which RoomPage variant runs: "room" | "local"
    posts,         \* requests the route has answered for any client, in order,
                   \* each with what it carried and the response it got
    view,          \* the RoomPage instances created so far; the latest is
                   \* the one on screen while mounted holds
    mounted,       \* a RoomPage instance is mounted
    messages,      \* useState<Message[]>: sequence of [id, language]
    isProcessing,  \* useState(false)
    myLanguage,    \* useState<Language>('ko')
    pendingInit,   \* initPusher calls waiting on the dynamic import (FIFO)
    handlers,      \* callbacks bound to 'translated-message', in bind order
    reqs,          \* fetch('/api/translate') calls in flight, each with the
                   \* status of its response once the route has answered
    sent,          \* number of fetch calls issued so far
    published,     \* requests for which the route triggered a channel event
    lastOp,        \* the handler that ran in the last step
    lastSrc,       \* sourceLang of the event dispatched in the last step
    spoke,         \* languages passed to speakText in the last step
    rejected,      \* setMessages offers of the last step that found the id stored
    lastRec,       \* the session whose stop or failed start ran in the last step, or 0
    payload,       \* the chunks a stopRecording promise settled with in the
                   \* last step (<<>>: null, or no promise settled)
    dataArray,     \* the Uint8Array as getByteFrequencyData filled it for the
                   \* updateVolume call of the last step (<<>>: no such call)
    \* ---- useAudioRecorder, one hook per RoomPage instance
    isRecording,       \* useState(false)
    permissionError,   \* useState(null): "none" | "denied" | "device"
    volume,            \* useState(0)
    mediaRecorderRef,  \* 0 (null) or the recorder of session n
    chunksRef,         \* Blob[]: sequence of chunks
    audioContextRef,   \* 0 (null) or the AudioContext of session n
    analyserRef,       \* 0 (null) or the AnalyserNode of session n
    sourceRef,         \* 0 (null) or the source node of session n
    animationFrameRef, \* 0 (null) or the frame last requested, by its loop n
    \* ---- browser objects, one set per startRecording call n
    acq,           \* the getUserMedia call and its stream
    rec,           \* the MediaRecorder and the stopRecording promise on it
    ctx,           \* state of the AudioContext
    raf            \* updateVolume loops with a frame request pending

envVars == <<mode, posts, view>>

pageVars == <<mounted, messages, isProcessing, myLanguage>>

chanVars == <<pendingInit, handlers>>

reqVars == <<reqs, sent, published>>

obsVars == <<lastOp, lastSrc, spoke, rejected, lastRec, payload, dataArray>>

recVars == <<isRecording, permissionError, mediaRecorderRef, chunksRef, acq, rec>>

anaVars == <<volume, audioContextRef, analyserRef, sourceRef, animationFrameRef, ctx, raf>>

hookVars == <<recVars, anaVars>>

vars == <<envVars, pageVars, chanVars, reqVars, obsVars, hookVars>>

NoLang == "none"

\* One session per startRecording call: its stream, recorder and audio graph.
Sessions == 1..MaxStarts

\* The RoomPage instances of one run, in mount order.
Views == 1..MaxViews

\* state: "none" (not constructed) | "recording" | "inactive";
\* sizes: sizes of the chunks it has emitted, in emission order;
\* ack: the browser's stop task (last dataavailable, then stop) is queued;
\* timer: stopRecording's setTimeout is armed;
\* wait: the stopRecording promise on it, "no" | "pending" | "done";
\* lang: myLanguage of the render whose handleStopRecording awaits it;
\* fresh: its startRecording call was made after a stop had released every
\*        earlier session;
\* ana: the step of startAnalysis that threw before it was constructed
\*      ("none": startAnalysis ran to its end);
\* view: the RoomPage instance whose startRecording call it is (0: no call).
NoRecorder == [state |-> "none", sizes |-> <<>>, ack |-> FALSE, timer |-> FALSE,
               wait |-> "no", lang |-> NoLang, fresh |-> FALSE, ana |-> "none",
               view |-> 0]

ChunkSizes == {0, 1}

\* ------------------------------------------------------------- pure parts

\* targetLang of a request and of the local playback.
Other(lang) == IF lang = "ko" THEN "vi" ELSE "ko"

\* newMessage built by the event handler.
NewMessage(e) == [id |-> e.id, language |-> e.sourceLang]

HasId(prev, id) == \E i \in DOMAIN prev : prev[i].id = id

\* The update with the new entry put first: [newMessage, ...prev].
OfferMessagePrepend(prev, m) == IF HasId(prev, m.id) THEN prev ELSE <<m>> \o prev

OfferMessageNoDedup(prev, m) == Append(prev, m)

\* The functional update handed to setMessages by the event handler.
OfferMessage(prev, m) == IF HasId(prev, m.id) THEN prev ELSE Append(prev, m)

\* The handler's auto-play test.
HandlerPlays(h, e) == e.sourceLang # h.lang

\* A closure's state setters reach the page state only while the component
\* instance that created it is mounted (React drops updates of an unmounted
\* component): live is cleared in every closure when its instance unmounts.
HandlerLive(h) == h.live

Orphan(c) == [c EXCEPT !.live = FALSE]

\* Instance v is the one on screen.
Live(v) == mounted /\ v = view

\* A useState setter of instance v called with new where the state holds
\* cur: React drops the update once the instance is unmounted.
StateUpdate(v, cur, new) == IF Live(v) THEN new ELSE cur

\* Transcript after every bound handler, in bind order, has handled e.
RECURSIVE Dispatch(_, _, _)
Dispatch(hs, e, prev) ==
    IF hs = <<>> THEN prev
    ELSE Dispatch(Tail(hs), e,
                  IF HandlerLive(Head(hs)) THEN OfferMessage(prev, NewMessage(e))
                  ELSE prev)

\* Number of offers that found the id already stored.
RECURSIVE Rejections(_, _, _)
Rejections(hs, e, prev) ==
    IF hs = <<>> THEN 0
    ELSE IF HandlerLive(Head(hs))
         THEN (IF HasId(prev, e.id) THEN 1 ELSE 0)
              + Rejections(Tail(hs), e, OfferMessage(prev, NewMessage(e)))
         ELSE Rejections(Tail(hs), e, prev)

\* speakText calls made while e is dispatched: one per handler whose test passes,
\* each in the language captured by that handler's closure.
Spoken(hs, e) ==
    LET ps == SelectSeq(hs, LAMBDA h : HandlerPlays(h, e))
    IN  [i \in 1..Len(ps) |-> ps[i].lang]

\* Number of subscription effect runs so far: every run leaves one pending
\* initPusher or one bound handler, and nothing removes either.
EffectRuns == Len(pendingInit) + Len(handlers)

\* The cleanup React gets from the effect: the effect callback returns nothing
\* (the unsubscribe closure is the resolved value of initPusher's promise), so
\* the bound handlers stay as they are.
EffectCleanup(hs) == hs

\* The effect body: if (roomId) initPusher(), in the room variant only.
RunEffect(lang) ==
    IF mode = "room"
    THEN pendingInit' = Append(pendingInit, [live |-> TRUE, lang |-> lang])
    ELSE pendingInit' = pendingInit

Quiet == /\ lastSrc' = NoLang
         /\ spoke' = <<>>
         /\ rejected' = 0
         /\ lastRec' = 0
         /\ payload' = <<>>
         /\ dataArray' = <<>>

\* ------------------------------------------------------------------- Init
Init ==
    /\ mode \in Modes
    /\ posts = <<>>
    /\ view = 1
    /\ mounted = TRUE
    /\ messages = <<>>
    /\ isProcessing = FALSE
    /\ myLanguage = "ko"
    /\ pendingInit = IF mode = "room" THEN <<[live |-> TRUE, lang |-> "ko"]>> ELSE <<>>
    /\ handlers = <<>>
    /\ reqs = {}
    /\ sent = 0
    /\ published = {}
    /\ lastOp = "step"
    /\ lastSrc = NoLang
    /\ spoke = <<>>
    /\ rejected = 0
    /\ lastRec = 0
    /\ isRecording = [v \in Views |-> FALSE]
    /\ permissionError = [v \in Views |-> "none"]
    /\ volume = [v \in Views |-> 0]
    /\ mediaRecorderRef = [v \in Views |-> 0]
    /\ chunksRef = [v \in Views |-> <<>>]
    /\ audioContextRef = [v \in Views |-> 0]
    /\ analyserRef = [v \in Views |-> 0]
    /\ sourceRef = [v \in Views |-> 0]
    /\ animationFrameRef = [v \in Views |-> 0]
    /\ acq = [n \in Sessions |-> "idle"]
    /\ rec = [n \in Sessions |-> NoRecorder]
    /\ ctx = [n \in Sessions |-> "none"]
    /\ raf = {}
    /\ payload = <<>>
    /\ dataArray = <<>>

\* ------------------------------------------------------- room channel side

\* onClick of a language button: setMyLanguage(l); the effect's dependency
\* changed, so React runs the previous cleanup and the effect again.
SetMyLanguage(l) ==
    /\ mounted
    /\ l # myLanguage
    /\ mode = "room" => EffectRuns < MaxEffects
    /\ myLanguage' = l
    /\ handlers' = EffectCleanup(handlers)
    /\ RunEffect(l)
    /\ lastOp' = "step"
    /\ Quiet
    /\ UNCHANGED <<hookVars, envVars, mounted, messages, isProcessing, reqVars>>

\* initPusher after its await: subscribe, then bind the handler.
InitPusherResume ==
    /\ pendingInit # <<>>
    /\ handlers' = Append(handlers, Head(pendingInit))
    /\ pendingInit' = Tail(pendingInit)
    /\ lastOp' = "step"
    /\ Quiet
    /\ UNCHANGED <<hookVars, envVars, pageVars, reqVars>>

\* The transport delivers e on the room's channel: every bound callback runs.
ChannelEvent(e) ==
    /\ handlers # <<>>
    /\ messages' = Dispatch(handlers, e, messages)
    /\ rejected' = Rejections(handlers, e, messages)
    /\ dataArray' = <<>>
    /\ spoke' = Spoken(handlers, e)
    /\ lastSrc' = e.sourceLang
    /\ lastRec' = 0
    /\ payload' = <<>>
    /\ lastOp' = "event"
    /\ UNCHANGED <<hookVars, envVars, mounted, isProcessing, myLanguage, chanVars, reqVars>>

\* The room view is torn down: its state is gone, React runs the effect cleanup.
Unmount ==
    /\ mounted
    /\ mounted' = FALSE
    /\ messages' = <<>>
    /\ isProcessing' = FALSE
    /\ myLanguage' = "ko"
    /\ handlers' = [i \in DOMAIN handlers |-> Orphan(EffectCleanup(handlers)[i])]
    /\ pendingInit' = [i \in DOMAIN pendingInit |-> Orphan(pendingInit[i])]
    /\ reqs' = {Orphan(r) : r \in reqs}
    /\ lastOp' = "step"
    /\ Quiet
    /\ UNCHANGED <<hookVars, envVars, sent, published>>

\* A new RoomPage instance is mounted: fresh page state, a fresh
\* useAudioRecorder (state and refs of its own), first effect run. What the
\* hooks of earlier instances hold stays with their callbacks.
Mount ==
    /\ ~mounted
    /\ view < MaxViews
    /\ mode = "room" => EffectRuns < MaxEffects
    /\ mounted' = TRUE
    /\ view' = view + 1
    /\ RunEffect("ko")
    /\ lastOp' = "step"
    /\ Quiet
    /\ UNCHANGED <<hookVars, mode, posts, messages, isProcessing, myLanguage, handlers, reqVars>>

\* ------------------------------------------------ /api/translate (server)
NoStatus == 0

\* parsed[field] is defined, for the value the reply text cap parses to.
ParsedHas(cap, field) ==
    \/ cap = "json"
    \/ cap = "noOriginal" /\ field = "translatedText"
    \/ cap = "noTranslated" /\ field = "originalText"

\* POST: the response for one request. key: process.env holds an API key
\* when the request is handled;
\* formOk: req.formData() parsed; audio: what formData.get('audio') gives
\* ("none": null or the empty string, "text": a non-empty string of a text
\* field, on which arrayBuffer is no function, "file": a File);
\* cap: what the capability call did ("throws"; "garbage": text that is no
\* JSON; "null": text that parses to null, whose property read throws;
\* "empty", "noOriginal", "noTranslated": text that parses to a value without
\* both, the first or the second of the two fields; "json": text that parses
\* to an object with both).
\* kind is the error text of the response ("config": "Gemini API Key not
\* configured", "invalid": "No audio file provided", "unparsable": "Failed to
\* parse Gemini response", "exception": error.message of what was caught);
\* calls counts the generateContent calls made; original and translated tell
\* whether the body carries an originalText and a translatedText (a property
\* that is undefined is left out of the JSON body).
PostOutcome(key, formOk, audio, cap) ==
    LET Failure(status, kind, calls) ==
            [status |-> status, kind |-> kind, calls |-> calls,
             original |-> FALSE, translated |-> FALSE]
    IN  IF ~key THEN Failure(500, "config", 0)
        ELSE IF ~formOk THEN Failure(500, "exception", 0)
        ELSE IF audio = "none" THEN Failure(400, "invalid", 0)
        ELSE IF audio = "text" THEN Failure(500, "exception", 0)
        ELSE IF cap = "throws" THEN Failure(500, "exception", 1)
        ELSE IF cap = "garbage" THEN Failure(500, "unparsable", 1)
        ELSE IF cap = "null" THEN Failure(500, "exception", 1)
        ELSE [status |-> 200, kind |-> "ok", calls |-> 1,
              original |-> ParsedHas(cap, "originalText"),
              translated |-> ParsedHas(cap, "translatedText")]

AudioParts == {"none", "text", "file"}

CapOutcomes == {"throws", "garbage", "null", "empty", "noOriginal", "noTranslated", "json"}

\* Channel events the handler triggers for request n before it responds: the
\* handler reads neither roomId nor any channel client, it only responds.
Triggered(n, resp) == {}

\* response.ok
ResponseOk(status) == status \in 200..299

\* A request reaches the route from any client: POST runs and answers.
Post(key, formOk, audio, cap) ==
    /\ Len(posts) < MaxPosts
    /\ posts' = Append(posts, [key |-> key, formOk |-> formOk, audio |-> audio,
                               cap |-> cap,
                               resp |-> PostOutcome(key, formOk, audio, cap)])
    /\ UNCHANGED <<mode, view, pageVars, chanVars, reqVars, obsVars, hookVars>>

\* ------------------------------------------------- RoomPage: submission

ApplyLocallyAlways(m) == TRUE

\* The variant of src/app/room/[roomId]/page.tsx appends the response to its
\* own transcript and plays it; the room variant waits for the channel event.
ApplyLocally(m) == m = "local"

IsProcessingAfterSuccessOnly(ok) == ~ok

\* finally { setIsProcessing(false) }
IsProcessingAfter(ok) == FALSE

\* The rest of handleStopRecording once stopRecording has resolved with blob:
\* processAudio builds the form and calls fetch, or the flag is put back.
HandleStopResume(blob, live, lang) ==
    IF blob # NoBlob
    THEN /\ reqs' = reqs \cup {[n |-> sent + 1, live |-> live, lang |-> lang, status |-> NoStatus]}
         /\ sent' = sent + 1
         /\ isProcessing' = IF live THEN TRUE ELSE isProcessing
    ELSE /\ isProcessing' = IF live THEN FALSE ELSE isProcessing
         /\ UNCHANGED <<reqs, sent>>

\* handlePlayAudio(msg) for transcript entry i, run by the entry's replay
\* button: speakText(msg.translatedText, msg.language === 'ko' ? 'vi' : 'ko').
HandlePlayAudio(i) ==
    /\ mounted
    /\ i \in DOMAIN messages
    /\ spoke' = <<Other(messages[i].language)>>
    /\ lastOp' = "step"
    /\ lastSrc' = NoLang
    /\ rejected' = 0
    /\ lastRec' = 0
    /\ payload' = <<>>
    /\ dataArray' = <<>>
    /\ UNCHANGED <<hookVars, envVars, pageVars, chanVars, reqVars>>

\* The route handler runs for request r.
PostHandle(r, key, cap) ==
    /\ r \in reqs
    /\ r.status = NoStatus
    /\ LET resp == PostOutcome(key, TRUE, "file", cap)
       IN  /\ reqs' = (reqs \ {r}) \cup {[r EXCEPT !.status = resp.status]}
           /\ published' = published \cup Triggered(r.n, resp)
    /\ lastOp' = "step"
    /\ Quiet
    /\ UNCHANGED <<hookVars, envVars, pageVars, chanVars, sent>>

\* processAudio after its awaits, and its catch and finally. failed: fetch
\* rejected; readable: response.json() parsed. now: Date.now() of the local
\* variant, never before the ids already stored.
ProcessAudioResume(r, failed, readable, now) ==
    /\ r \in reqs
    /\ ~failed => r.status # NoStatus
    /\ \A i \in DOMAIN messages : messages[i].id <= now
    /\ LET ok   == ~failed /\ readable /\ ResponseOk(r.status)
           live == r.live
       IN  /\ messages' = IF ok /\ ApplyLocally(mode) /\ live
                          THEN Append(messages, [id |-> now, language |-> r.lang])
                          ELSE messages
           /\ spoke' = IF ok /\ ApplyLocally(mode) THEN <<Other(r.lang)>> ELSE <<>>
           /\ isProcessing' = IF live THEN IsProcessingAfter(ok) ELSE isProcessing
           /\ lastOp' = IF ok THEN "resumeOk" ELSE "resumeFail"
    /\ reqs' = reqs \ {r}
    /\ lastSrc' = NoLang
    /\ rejected' = 0
    /\ dataArray' = <<>>
    /\ lastRec' = 0
    /\ payload' = <<>>
    /\ UNCHANGED <<hookVars, envVars, mounted, myLanguage, chanVars, sent, published>>

\* ------------------------------------------------- Energy Analyzer

RECURSIVE Sum(_)
Sum(xs) == IF xs = <<>> THEN 0 ELSE Head(xs) + Sum(Tail(xs))

\* Math.round of num/den, both non-negative: halves go up.
Round(num, den) == (2 * num + den) \div (2 * den)

Min(a, b) == IF a < b THEN a ELSE b

\* Ten times the averages at which (average / 60) * 100, evaluated in
\* doubles, comes out just below the value k + 1/2 it stands for (34.5 / 60 is
\* 0.57499999999999996 and the product 57.49999999999999), for arrays of
\* fewer than 300 bins; the first six and the last four need a bin count that
\* is a multiple of 10.
LowTies == {81, 87, 117, 237, 333, 339, 345, 393, 399, 543, 549}

\* updateVolume's reading for one getByteFrequencyData sample:
\* Math.min(100, Math.round((average / 60) * 100)) in double arithmetic. The
\* double product rounds as the exact quotient does except at LowTies, where
\* Math.round gives the integer below.
Volume(sample) ==
    LET sum   == Sum(sample)
        len   == Len(sample)
        exact == Round(sum * 100, len * 60)
    IN  Min(100, IF \E t \in LowTies : 10 * sum = t * len THEN exact - 1 ELSE exact)

\* Every content a Uint8Array of frequencyBinCount bytes can have.
ByteSamples == [1..NumBins -> 0..255]

\* Samples the analyser hands out: silence and loud speech.
Samples == {[i \in 1..NumBins |-> 0], [i \in 1..NumBins |-> 60]}

AnalysisFailures == {"none", "context", "source"}

\* The loop test of updateVolume: audioContextRef.current?.state === 'running'.
ContextRunning(v) == audioContextRef[v] # 0 /\ ctx[audioContextRef[v]] = "running"

\* startAnalysis(stream) of session n, in the hook of the instance that
\* called startRecording. fail: the step that throws ("context":
\* new AudioContext, "source": createMediaStreamSource), caught and logged;
\* susp: the new context starts suspended, so resume() is called; sample: the
\* data of the first updateVolume call.
StartAnalysis(n, fail, susp, sample) ==
    LET v == rec[n].view
    IN  IF fail = "context"
        THEN UNCHANGED anaVars
        ELSE IF fail = "source"
        THEN /\ audioContextRef' = [audioContextRef EXCEPT ![v] = n]
             /\ analyserRef' = [analyserRef EXCEPT ![v] = n]
             /\ ctx' = [ctx EXCEPT ![n] = IF susp THEN "suspended" ELSE "running"]
             /\ UNCHANGED <<volume, sourceRef, animationFrameRef, raf>>
        ELSE /\ audioContextRef' = [audioContextRef EXCEPT ![v] = n]
             /\ analyserRef' = [analyserRef EXCEPT ![v] = n]
             /\ sourceRef' = [sourceRef EXCEPT ![v] = n]
             /\ ctx' = [ctx EXCEPT ![n] = IF susp THEN "resuming" ELSE "running"]
             /\ volume' = [volume EXCEPT ![v] = StateUpdate(v, @, Volume(sample))]
             /\ IF susp
                THEN UNCHANGED <<animationFrameRef, raf>>
                ELSE /\ animationFrameRef' = [animationFrameRef EXCEPT ![v] = n]
                     /\ raf' = raf \cup {n}

\* The analyzer side of the hook of instance v as one value.
Analyzer(v) ==
    [volume |-> volume[v], audioContextRef |-> audioContextRef[v],
     analyserRef |-> analyserRef[v], sourceRef |-> sourceRef[v],
     animationFrameRef |-> animationFrameRef[v], ctx |-> ctx, raf |-> raf]

\* cleanupAudioAnalysis with setVolume(0) moved into its first if.
CleanedUpVolumeWithFrame(a) ==
    LET open == a.audioContextRef # 0 /\ a.ctx[a.audioContextRef] # "closed"
    IN  [volume            |-> IF a.animationFrameRef # 0 THEN 0 ELSE a.volume,
         animationFrameRef |-> 0,
         sourceRef         |-> 0,
         analyserRef       |-> 0,
         raf               |-> IF a.animationFrameRef # 0
                               THEN a.raf \ {a.animationFrameRef} ELSE a.raf,
         ctx               |-> IF open THEN [a.ctx EXCEPT ![a.audioContextRef] = "closed"]
                               ELSE a.ctx,
         audioContextRef   |-> IF open THEN 0 ELSE a.audioContextRef]

\* What cleanupAudioAnalysis makes of analyzer state a: the frame in
\* animationFrameRef cancelled, the nodes disconnected and forgotten, the
\* context closed and forgotten unless it is closed already, setVolume(0).
CleanedUp(a) ==
    LET open == a.audioContextRef # 0 /\ a.ctx[a.audioContextRef] # "closed"
    IN  [volume            |-> 0,
         animationFrameRef |-> 0,
         sourceRef         |-> 0,
         analyserRef       |-> 0,
         raf               |-> IF a.animationFrameRef # 0
                               THEN a.raf \ {a.animationFrameRef} ELSE a.raf,
         ctx               |-> IF open THEN [a.ctx EXCEPT ![a.audioContextRef] = "closed"]
                               ELSE a.ctx,
         audioContextRef   |-> IF open THEN 0 ELSE a.audioContextRef]

\* cleanupAudioAnalysis() of the hook of instance v.
CleanupAudioAnalysis(v) ==
    LET c == CleanedUp(Analyzer(v))
    IN  /\ raf' = c.raf
        /\ animationFrameRef' = [animationFrameRef EXCEPT ![v] = c.animationFrameRef]
        /\ sourceRef' = [sourceRef EXCEPT ![v] = c.sourceRef]
        /\ analyserRef' = [analyserRef EXCEPT ![v] = c.analyserRef]
        /\ ctx' = c.ctx
        /\ audioContextRef' = [audioContextRef EXCEPT ![v] = c.audioContextRef]
        /\ volume' = [volume EXCEPT ![v] = StateUpdate(v, @, c.volume)]

\* A frame requested by loop n fires: updateVolume of session n runs.
Tick(n, sample) ==
    /\ n \in raf
    /\ LET v == rec[n].view
       IN  /\ volume' = [volume EXCEPT ![v] = StateUpdate(v, @, Volume(sample))]
           /\ IF ContextRunning(v)
              THEN animationFrameRef' = [animationFrameRef EXCEPT ![v] = n] /\ raf' = raf
              ELSE raf' = raf \ {n} /\ UNCHANGED animationFrameRef
    /\ lastOp' = "step"
    /\ lastSrc' = NoLang
    /\ spoke' = <<>>
    /\ rejected' = 0
    /\ lastRec' = 0
    /\ payload' = <<>>
    /\ dataArray' = sample
    /\ UNCHANGED <<envVars, pageVars, chanVars, reqVars, recVars,
                   audioContextRef, analyserRef, sourceRef, ctx>>

\* The promise of audioContext.resume() settles: the context runs.
ResumeDone(n) ==
    /\ ctx[n] = "resuming"
    /\ ctx' = [ctx EXCEPT ![n] = "running"]
    /\ lastOp' = "step"
    /\ Quiet
    /\ UNCHANGED <<envVars, pageVars, chanVars, reqVars, recVars,
                   volume, audioContextRef, analyserRef, sourceRef, animationFrameRef, raf>>

\* ------------------------------------------------- Recording Session

\* The button with the page's disabled prop left out.
ButtonEnabledIgnoringError == ~isProcessing

\* MicrophoneButton: disabled={disabled || isProcessing}, disabled={!!permissionError}
ButtonEnabled == permissionError[view] = "none" /\ ~isProcessing

ErrorNames == {"NotAllowedError", "PermissionDeniedError", "NotFoundError"}

\* The catch of startRecording.
Classify(name) ==
    IF name = "NotAllowedError" \/ name = "PermissionDeniedError" THEN "denied" ELSE "device"

\* The next getUserMedia call.
NextSession == CHOOSE n \in Sessions : acq[n] = "idle" /\ \A m \in 1..(n - 1) : acq[m] # "idle"

\* mediaRecorder.ondataavailable
OnDataAvailable(chunks, c) == IF c.size > 0 THEN Append(chunks, c) ELSE chunks

\* The chunk recorder r emits next.
NextChunk(r, size) == [rec |-> r, k |-> Len(rec[r].sizes) + 1, size |-> size]

\* toggleRecording with isRecording false: startRecording up to its await.
StartClick ==
    /\ mounted
    /\ ButtonEnabled
    /\ ~isRecording[view]
    /\ \E n \in Sessions : acq[n] = "idle"
    /\ acq' = [acq EXCEPT ![NextSession] = "acquiring"]
    /\ rec' = [rec EXCEPT ![NextSession].view = view,
                          ![NextSession].fresh =
                              /\ NextSession > 1
                              /\ \A m \in 1..(NextSession - 1) : acq[m] = "stopped"]
    /\ lastOp' = "step"
    /\ Quiet
    /\ UNCHANGED <<envVars, pageVars, chanVars, reqVars, anaVars,
                   isRecording, permissionError, mediaRecorderRef, chunksRef>>

\* getUserMedia of call n rejects: the catch of startRecording.
AcquireReject(n, name) ==
    /\ acq[n] = "acquiring"
    /\ acq' = [acq EXCEPT ![n] = "failed"]
    /\ permissionError' = [permissionError EXCEPT
                               ![rec[n].view] = StateUpdate(rec[n].view, @, Classify(name))]
    /\ lastOp' = "startFail"
    /\ lastSrc' = NoLang
    /\ spoke' = <<>>
    /\ rejected' = 0
    /\ dataArray' = <<>>
    /\ lastRec' = n
    /\ payload' = <<>>
    /\ UNCHANGED <<envVars, pageVars, chanVars, reqVars, anaVars,
                   isRecording, mediaRecorderRef, chunksRef, rec>>

RecorderOutcomes == {"ok", "ctorThrows", "startThrows"}

\* startAnalysis without its try/catch: what its body throws reaches the
\* catch of startRecording.
AnalysisThrowsUncaught(fail) == fail # "none"

\* startAnalysis(stream) throws to startRecording: never, its whole body is
\* inside try { } catch (e) { safeLog(...) }.
AnalysisThrows(fail) == FALSE

\* getUserMedia of call n resolves with a stream: the rest of startRecording.
\* out: "ctorThrows": both new MediaRecorder calls throw; "startThrows":
\* mediaRecorder.start(1000) throws; either way the catch runs.
AcquireGrant(n, fail, susp, sample, out) ==
    /\ acq[n] = "acquiring"
    /\ acq' = [acq EXCEPT ![n] = "live"]
    /\ StartAnalysis(n, fail, susp, sample)
    /\ LET v == rec[n].view
       IN  IF out = "ctorThrows" \/ AnalysisThrows(fail)
           THEN /\ permissionError' = [permissionError EXCEPT
                                           ![v] = StateUpdate(v, @, Classify("NotSupportedError"))]
                /\ UNCHANGED <<mediaRecorderRef, chunksRef, rec, isRecording>>
           ELSE /\ mediaRecorderRef' = [mediaRecorderRef EXCEPT ![v] = n]
                /\ chunksRef' = [chunksRef EXCEPT ![v] = <<>>]
                /\ IF out = "startThrows"
                   THEN /\ rec' = [rec EXCEPT ![n].state = "inactive", ![n].ana = fail]
                        /\ permissionError' = [permissionError EXCEPT
                                                   ![v] = StateUpdate(v, @, Classify("InvalidStateError"))]
                        /\ UNCHANGED isRecording
                   ELSE /\ rec' = [rec EXCEPT ![n].state = "recording", ![n].ana = fail]
                        /\ isRecording' = [isRecording EXCEPT ![v] = StateUpdate(v, @, TRUE)]
                        /\ permissionError' = [permissionError EXCEPT
                                                   ![v] = StateUpdate(v, @, "none")]
    /\ lastOp' = IF out = "ok" /\ ~AnalysisThrows(fail) THEN "step" ELSE "startFail"
    /\ lastSrc' = NoLang
    /\ spoke' = <<>>
    /\ rejected' = 0
    /\ dataArray' = IF fail = "none" THEN sample ELSE <<>>
    /\ lastRec' = IF out = "ok" /\ ~AnalysisThrows(fail) THEN 0 ELSE n
    /\ payload' = <<>>
    /\ UNCHANGED <<envVars, pageVars, chanVars, reqVars>>

\* The timeslice of recorder r elapses: dataavailable with a chunk.
DataAvailable(r, size) ==
    /\ rec[r].state = "recording"
    /\ Len(rec[r].sizes) < MaxChunks
    /\ chunksRef' = [chunksRef EXCEPT
                         ![rec[r].view] = OnDataAvailable(@, NextChunk(r, size))]
    /\ rec' = [rec EXCEPT ![r].sizes = Append(@, size)]
    /\ lastOp' = "step"
    /\ Quiet
    /\ UNCHANGED <<envVars, pageVars, chanVars, reqVars, anaVars,
                   isRecording, permissionError, mediaRecorderRef, acq>>

\* Recorder r reports an error while recording (the device is lost): the
\* browser fires error, whose handler only logs, then inactivates the
\* recorder: dataavailable with what it gathered, then stop, for which no
\* handler is set before stopRecording runs.
RecorderError(r, size) ==
    /\ rec[r].state = "recording"
    /\ chunksRef' = [chunksRef EXCEPT
                         ![rec[r].view] = OnDataAvailable(@, NextChunk(r, size))]
    /\ rec' = [rec EXCEPT ![r].state = "inactive", ![r].sizes = Append(@, size)]
    /\ lastOp' = "error"
    /\ lastSrc' = NoLang
    /\ spoke' = <<>>
    /\ rejected' = 0
    /\ dataArray' = <<>>
    /\ lastRec' = r
    /\ payload' = <<>>
    /\ UNCHANGED <<envVars, pageVars, chanVars, reqVars, anaVars,
                   isRecording, permissionError, mediaRecorderRef, acq>>

\* cleanup() without its resolve(null) branch: with an empty buffer the
\* promise is left waiting.
CleanupNoNullResolve(r, rc, chunks) ==
    /\ acq' = [acq EXCEPT ![r] = "stopped"]
    /\ isRecording' = [isRecording EXCEPT
                           ![rc[r].view] = StateUpdate(rc[r].view, @, FALSE)]
    /\ IF rc[r].wait = "pending" /\ Len(chunks) > 0
       THEN /\ rec' = [rc EXCEPT ![r].wait = "done",
                                 ![r].state = "inactive",
                                 ![r].ack = (rc[r].ack \/ rc[r].state = "recording")]
            /\ payload' = chunks
            /\ HandleStopResume(SomeBlob, Live(rc[r].view), rc[r].lang)
       ELSE /\ rec' = [rc EXCEPT ![r].state = "inactive",
                                 ![r].ack = (rc[r].ack \/ rc[r].state = "recording")]
            /\ payload' = <<>>
            /\ UNCHANGED <<isProcessing, reqs, sent>>

\* cleanup() inside stopRecording's promise for recorder r, with rc the
\* recorders and chunks the buffer as the callback that calls it left them.
\* resolve() settles the promise the first time only; handleStopRecording
\* then resumes with the blob.
Cleanup(r, rc, chunks) ==
    /\ acq' = [acq EXCEPT ![r] = "stopped"]
    /\ isRecording' = [isRecording EXCEPT
                           ![rc[r].view] = StateUpdate(rc[r].view, @, FALSE)]
    /\ IF rc[r].wait = "pending"
       THEN /\ rec' = [rc EXCEPT ![r].wait = "done",
                                 ![r].state = "inactive",
                                 ![r].ack = (rc[r].ack \/ rc[r].state = "recording")]
            /\ payload' = chunks
            /\ HandleStopResume(IF Len(chunks) = 0 THEN NoBlob ELSE SomeBlob,
                                Live(rc[r].view), rc[r].lang)
       ELSE /\ rec' = [rc EXCEPT ![r].state = "inactive",
                                 ![r].ack = (rc[r].ack \/ rc[r].state = "recording")]
            /\ payload' = <<>>
            /\ UNCHANGED <<isProcessing, reqs, sent>>

\* handleStopRecording: setIsProcessing(true), then stopRecording up to the
\* point where its promise waits or settles.
StopRecordingCall ==
    /\ CleanupAudioAnalysis(view)
    /\ LET r == mediaRecorderRef[view]
       IN  IF r = 0
           THEN /\ HandleStopResume(NoBlob, TRUE, myLanguage)
                /\ payload' = <<>>
                /\ lastOp' = "resolveNull"
                /\ UNCHANGED <<isRecording, acq, rec>>
           ELSE IF rec[r].state = "inactive"
           THEN /\ Cleanup(r, [rec EXCEPT ![r].wait = "pending", ![r].lang = myLanguage],
                           chunksRef[view])
                /\ lastOp' = "resolveSync"
           ELSE /\ rec' = [rec EXCEPT ![r].state = "inactive", ![r].ack = TRUE,
                                      ![r].timer = TRUE, ![r].wait = "pending",
                                      ![r].lang = myLanguage]
                /\ isProcessing' = TRUE
                /\ payload' = <<>>
                /\ lastOp' = "stop"
                /\ UNCHANGED <<isRecording, acq, reqs, sent>>
    /\ lastSrc' = NoLang
    /\ spoke' = <<>>
    /\ rejected' = 0
    /\ dataArray' = <<>>
    /\ lastRec' = mediaRecorderRef[view]
    /\ UNCHANGED <<envVars, mounted, messages, myLanguage, chanVars, published,
                   permissionError, mediaRecorderRef, chunksRef>>

\* toggleRecording with isRecording true.
StopClick ==
    /\ mounted
    /\ ButtonEnabled
    /\ isRecording[view]
    /\ StopRecordingCall

\* handleStopRecording called again by a caller that does not look at
\* isRecording, once its previous call has run to its end.
StopCall ==
    /\ mounted
    /\ ~isProcessing
    /\ ~isRecording[view]
    /\ mediaRecorderRef[view] # 0 => rec[mediaRecorderRef[view]].wait # "pending"
    /\ sent < MaxStarts
    /\ StopRecordingCall

\* The timer set by stopRecording for recorder r fires.
StopTimeout(r) ==
    /\ rec[r].timer
    /\ Cleanup(r, [rec EXCEPT ![r].timer = FALSE], chunksRef[rec[r].view])
    /\ lastOp' = "timeout"
    /\ lastSrc' = NoLang
    /\ spoke' = <<>>
    /\ rejected' = 0
    /\ dataArray' = <<>>
    /\ lastRec' = r
    /\ UNCHANGED <<envVars, mounted, messages, myLanguage, chanVars, published, anaVars,
                   permissionError, mediaRecorderRef, chunksRef>>

\* The browser's stop task of recorder r runs: dataavailable with the last
\* chunk, then stop, whose handler clears the timer and calls cleanup().
StopAck(r, size) ==
    /\ rec[r].ack
    /\ LET chunks == OnDataAvailable(chunksRef[rec[r].view], NextChunk(r, size))
       IN  /\ chunksRef' = [chunksRef EXCEPT ![rec[r].view] = chunks]
           /\ Cleanup(r, [rec EXCEPT ![r].ack = FALSE, ![r].timer = FALSE,
                                     ![r].sizes = Append(@, size)], chunks)
    /\ lastOp' = IF rec[r].wait = "pending" THEN "ack" ELSE "lateAck"
    /\ lastSrc' = NoLang
    /\ spoke' = <<>>
    /\ rejected' = 0
    /\ dataArray' = <<>>
    /\ lastRec' = r
    /\ UNCHANGED <<envVars, mounted, messages, myLanguage, chanVars, published, anaVars,
                   permissionError, mediaRecorderRef>>

\* ------------------------------------------------------- specifications
Replay == \E i \in DOMAIN messages : HandlePlayAudio(i)

Serve == \E r \in reqs, key \in BOOLEAN, cap \in CapOutcomes : PostHandle(r, key, cap)

Respond == \E r \in reqs, failed \in BOOLEAN, readable \in BOOLEAN, now \in 1..MaxIds :
               ProcessAudioResume(r, failed, readable, now)

SwitchLanguage == \E l \in Languages : SetMyLanguage(l)

Deliver == \E e \in Events : ChannelEvent(e)

Reject == \E n \in Sessions, name \in ErrorNames : AcquireReject(n, name)

Grant == \E n \in Sessions, fail \in AnalysisFailures, susp \in BOOLEAN,
            sample \in Samples, out \in RecorderOutcomes :
             AcquireGrant(n, fail, susp, sample, out)

Chunk == \E r \in Sessions, size \in ChunkSizes : DataAvailable(r, size)

Timeout == \E r \in Sessions : StopTimeout(r)

Ack == \E r \in Sessions, size \in ChunkSizes : StopAck(r, size)

Fault == \E r \in Sessions, size \in ChunkSizes : RecorderError(r, size)

Frame == \E n \in Sessions, sample \in Samples : Tick(n, sample)

Resumed == \E n \in Sessions : ResumeDone(n)

\* toggleRecording with isRecording false, while the run has a start left.
RoomStart ==
    /\ \E n \in 1..MaxRoomStarts : acq[n] = "idle"
    /\ StartClick

\* The room view with its channel: language switches, the subscription,
\* deliveries, teardown and mount, the recording control with its recorder
\* hook, the submissions and the replay buttons.
NextRoom ==
    \/ SwitchLanguage
    \/ InitPusherResume
    \/ Deliver
    \/ Unmount
    \/ Mount
    \/ RoomStart
    \/ Reject
    \/ Grant
    \/ Chunk
    \/ StopClick
    \/ Timeout
    \/ Ack
    \/ Fault
    \/ Frame
    \/ Resumed
    \/ Serve
    \/ Respond
    \/ Replay

SpecRoom == Init /\ [][NextRoom]_vars

\* One room view from its mount on: the recorder hook, the recording control
\* and the submission of each payload.
Next ==
    \/ StartClick
    \/ Reject
    \/ Grant
    \/ Chunk
    \/ StopClick
    \/ Timeout
    \/ Ack
    \/ Fault
    \/ Frame
    \/ Resumed
    \/ Serve
    \/ Respond
    \/ Replay

Spec == Init /\ [][Next]_vars

\* The route on its own, answering whatever it is sent.
NextRoute ==
    \E key \in BOOLEAN, formOk \in BOOLEAN, audio \in AudioParts, cap \in CapOutcomes :
        Post(key, formOk, audio, cap)

SpecRoute == Init /\ [][NextRoute]_vars

\* The hook under a caller that may also stop when nothing is recording.
NextHook ==
    \/ Next
    \/ StopCall

SpecHook == Init /\ [][NextHook]_vars

\* One room view from its mount to after its teardown: what the hook started
\* goes on when the view is gone, the control does not.
NextTeardown ==
    \/ Next
    \/ Unmount

SpecTeardown == Init /\ [][NextTeardown]_vars

\* The analyser has filled dataArray for one updateVolume call.
InitVolume ==
    /\ mode \in Modes
    /\ posts = <<>>
    /\ view = 1
    /\ mounted = TRUE
    /\ messages = <<>>
    /\ isProcessing = FALSE
    /\ myLanguage = "ko"
    /\ pendingInit = <<>>
    /\ handlers = <<>>
    /\ reqs = {}
    /\ sent = 0
    /\ published = {}
    /\ lastOp = "step"
    /\ lastSrc = NoLang
    /\ spoke = <<>>
    /\ rejected = 0
    /\ lastRec = 0
    /\ isRecording = [v \in Views |-> FALSE]
    /\ permissionError = [v \in Views |-> "none"]
    /\ volume = [v \in Views |-> 0]
    /\ mediaRecorderRef = [v \in Views |-> 0]
    /\ chunksRef = [v \in Views |-> <<>>]
    /\ audioContextRef = [v \in Views |-> 0]
    /\ analyserRef = [v \in Views |-> 0]
    /\ sourceRef = [v \in Views |-> 0]
    /\ animationFrameRef = [v \in Views |-> 0]
    /\ acq = [n \in Sessions |-> "idle"]
    /\ rec = [n \in Sessions |-> NoRecorder]
    /\ ctx = [n \in Sessions |-> "none"]
    /\ raf = {}
    /\ payload = <<>>
    /\ dataArray \in ByteSamples

\* updateVolume from its sum to setVolume(vol), for the sample in dataArray.
ComputeVolume ==
    /\ lastOp = "step"
    /\ volume' = [volume EXCEPT ![view] = StateUpdate(view, @, Volume(dataArray))]
    /\ lastOp' = "volume"
    /\ UNCHANGED <<envVars, pageVars, chanVars, reqVars, recVars,
                   lastSrc, spoke, rejected, lastRec, payload, dataArray,
                   audioContextRef, analyserRef, sourceRef, animationFrameRef, ctx, raf>>

\* The reading as a function of the sample alone.
SpecVolume == InitVolume /\ [][ComputeVolume]_vars

\* The event loop runs a timer that is due; the route answers and the fetch
\* settles. The recorder owes no stop event and the user no click.
FairSpec ==
    /\ Spec
    /\ WF_vars(Timeout)
    /\ WF_vars(Serve)
    /\ WF_vars(Respond)

\* As FairSpec, and the browser settles the promise of resume() and runs
\* every animation frame that was requested.
FairSpecAnalyzer ==
    /\ FairSpec
    /\ WF_vars(Resumed)
    /\ WF_vars(Frame)

\* The event loop runs what is ready: a request that reached the route is
\* handled, a settled fetch resumes processAudio, a resolved import resumes
\* initPusher. The user and the channel transport owe nothing.
FairSpecRoom ==
    /\ SpecRoom
    /\ WF_vars(Serve)
    /\ WF_vars(Respond)
    /\ WF_vars(InitPusherResume)

\* ------------------------------------------------------------ properties

NoTwoSameId(ms) == \A i, j \in DOMAIN ms : i # j => ms[i].id # ms[j].id

\* Streams granted by getUserMedia whose tracks have not been stopped.
HeldStreams == {n \in Sessions : acq[n] = "live"}

\* C1: at most one microphone stream is held unreleased at any time.
C1_SingleStream == Cardinality(HeldStreams) <= 1

\* The non-empty chunks recorder r has emitted, in emission order.
EmittedNonEmpty(r) ==
    SelectSeq([k \in 1..Len(rec[r].sizes) |-> [rec |-> r, k |-> k, size |-> rec[r].sizes[k]]],
              LAMBDA c : c.size > 0)

Resolving == {"timeout", "ack", "resolveSync"}

\* C2: when the stopRecording promise on a recorder settles, its payload is
\* the sequence of non-empty chunks that recorder emitted, in emission order.
C2_PayloadIsSessionChunks ==
    lastOp \in Resolving => payload = EmittedNonEmpty(lastRec)

\* C3: a stopRecording promise that waits has its timer armed; when the
\* timer fires the promise settles with the chunks buffered so far (null if
\* there is none), the recorder's tracks are stopped and isRecording is
\* false; so every waiting promise settles.
C3_TimeoutFinalizes ==
    /\ [](\A r \in Sessions : rec[r].wait = "pending" => rec[r].timer)
    /\ [][\A r \in Sessions :
            StopTimeout(r) => /\ rec[r].wait = "pending"
                              /\ rec'[r].wait = "done"
                              /\ payload' = chunksRef[rec[r].view]
                              /\ acq'[r] = "stopped"
                              /\ ~isRecording'[rec[r].view]]_vars
    /\ \A r \in Sessions : (rec[r].wait = "pending") ~> (rec[r].wait = "done")

\* The timer has fired while the stop task was still queued, and the promise
\* settled with a buffered chunk.
C3_Witness ==
    /\ lastOp = "timeout"
    /\ rec[lastRec].ack
    /\ rec[lastRec].wait = "done"
    /\ Len(payload) > 0
    /\ acq[lastRec] = "stopped"

\* C4: in the room variant the transcript never holds two entries with the
\* same id, and dispatching an event whose id is already stored (to however
\* many bound handlers) leaves the transcript as it was.
C4_NoDuplicateIds ==
    /\ [](mode = "room" => NoTwoSameId(messages))
    /\ [][\A e \in Events : (ChannelEvent(e) /\ HasId(messages, e.id))
                                => messages' = messages]_vars

\* An event was dispatched to two live handlers and every offer found the id
\* stored already: a repeated delivery handled by more than one handler.
C4_Witness == mode = "room" /\ lastOp = "event" /\ rejected >= 2 /\ Len(messages) >= 1

\* C5: when an event has been dispatched, playback fired iff its source
\* language differs from the receiver's configured language, and every
\* playback was in that language.
C5_PlaybackIffSourceDiffers ==
    lastOp = "event" =>
        /\ (spoke # <<>>) <=> (lastSrc # myLanguage)
        /\ \A i \in DOMAIN spoke : spoke[i] = myLanguage

\* C6: at most one handler is bound to the room's 'translated-message' event
\* on the client, so an event is handled by one invocation.
C6_SingleBinding == Len(handlers) <= 1

\* The handler at position i was bound by the latest run of the subscription
\* effect of the mounted view.
IsCurrent(i) == mounted /\ handlers[i].live /\ i = EffectRuns

\* C7: no handler of a torn-down view or of a superseded effect run is
\* invoked when an event is dispatched.
C7_NoStaleHandlerInvoked ==
    lastOp = "event" => \A i \in DOMAIN handlers : IsCurrent(i)

\* C8: every request the route answered with success is eventually published
\* on the room's channel.
C8_SuccessIsPublished ==
    \A n \in 1..MaxStarts :
        (\E r \in reqs : r.n = n /\ ResponseOk(r.status)) ~> (n \in published)

\* C9: in the room variant no step of a submission (the stop command, the
\* settling of stopRecording with processAudio, the route, the resumption)
\* changes the transcript, and only the channel event handler adds an entry.
C9_SubmitLeavesTranscript ==
    [][mode = "room" =>
          /\ (StopClick \/ Timeout \/ Ack \/ Serve \/ Respond) => messages' = messages
          /\ Len(messages') > Len(messages) => Deliver]_vars

\* A submission of the room variant came back with success.
C9_Witness == mode = "room" /\ lastOp = "resumeOk" /\ mounted

\* C10: when processAudio ends in its catch (fetch rejected, body unreadable
\* or response not ok) the transcript is unchanged, nothing is played, no
\* request is issued and the processing flag of the submitting view is clear.
C10_FailureLeavesNoTrace ==
    [][\A r \in reqs, failed \in BOOLEAN, readable \in BOOLEAN, now \in 1..MaxIds :
          (/\ ProcessAudioResume(r, failed, readable, now)
           /\ (failed \/ ~readable \/ ~ResponseOk(r.status)))
          => /\ messages' = messages
             /\ spoke' = <<>>
             /\ sent' = sent
             /\ reqs' = reqs \ {r}
             /\ r.live => ~isProcessing']_vars

\* A submission of the mounted view has just failed.
C10_Witness == lastOp = "resumeFail" /\ mounted /\ ~isProcessing /\ reqs = {}

\* AudioContexts that have been created and not closed.
OpenContexts == {n \in Sessions : ctx[n] \in {"running", "resuming", "suspended"}}

\* C11: when a startRecording call has failed (getUserMedia rejected, or the
\* recorder could not be constructed or started), isRecording is false, a
\* classified error is shown, and the call holds nothing: its stream is not
\* live, its AudioContext is not open and its updateVolume loop is not pending.
C11_FailedStartHoldsNothing ==
    lastOp = "startFail" =>
        /\ ~isRecording[rec[lastRec].view]
        /\ permissionError[rec[lastRec].view] \in {"denied", "device"}
        /\ acq[lastRec] # "live"
        /\ lastRec \notin OpenContexts
        /\ lastRec \notin raf

\* C12: when a stopRecording promise settles for a session whose recorder
\* has emitted no non-empty chunk, it settles with null, the session's tracks
\* are stopped, isRecording is false, no request is issued and the caller's
\* processing flag is clear.
C12_EmptySessionYieldsNull ==
    [][\A r \in Sessions :
          (lastOp' \in Resolving /\ lastRec' = r /\ EmittedNonEmpty(r)' = <<>>)
          => /\ payload' = <<>>
             /\ acq'[r] = "stopped"
             /\ ~isRecording'[rec[r].view]
             /\ sent' = sent
             /\ ~isProcessing']_vars

\* C13: when a recorder has reported an error while recording, the session is
\* finalized at once: isRecording is false, the session's tracks are stopped
\* and the chunks buffered so far have been delivered as the payload.
C13_RecorderErrorFinalizes ==
    lastOp = "error" =>
        /\ ~isRecording[rec[lastRec].view]
        /\ acq[lastRec] = "stopped"
        /\ payload = chunksRef[rec[lastRec].view]

\* C14: a stopRecording call on a recorder whose promise has settled already,
\* with no successful start since, yields no payload.
C14_PayloadProducedOnce ==
    [][(StopCall /\ mediaRecorderRef[view] # 0 /\ rec[mediaRecorderRef[view]].wait = "done")
          => payload' = <<>>]_vars

\* C15: a session started after every earlier session was released reaches
\* recording with an empty buffer and its stream held, and the payload its
\* stopRecording promise settles with holds chunks of its own recorder only.
C15_RestartIsClean ==
    /\ [][\A n \in Sessions :
            (rec[n].fresh /\ rec[n].state = "none" /\ rec'[n].state = "recording")
            => /\ chunksRef'[rec[n].view] = <<>>
               /\ isRecording'[rec[n].view]
               /\ acq'[n] = "live"]_vars
    /\ []((lastOp \in Resolving /\ rec[lastRec].fresh)
            => \A i \in DOMAIN payload : payload[i].rec = lastRec)

\* cleanupAudioAnalysis has run and startAnalysis has not built a context since.
AnalyzerStopped == audioContextRef[view] = 0

\* C16: while the analyzer is stopped no updateVolume callback runs and the
\* reading is 0.
C16_NoTickAfterStop ==
    /\ [][AnalyzerStopped => ~Frame]_vars
    /\ [](AnalyzerStopped => volume[view] = 0)

\* C17: a stop command leaves no analyzer behind, whatever the recorder does
\* next: after it no updateVolume frame is pending, no AudioContext is open,
\* no node or context is referenced and the reading is 0; the timer and the
\* recorder's stop event leave the analyzer as the stop command left it.
C17_StopTearsDownAnalyzer ==
    /\ [][StopClick => /\ raf' = {}
                       /\ OpenContexts' = {}
                       /\ animationFrameRef'[view] = 0
                       /\ sourceRef'[view] = 0
                       /\ analyserRef'[view] = 0
                       /\ audioContextRef'[view] = 0
                       /\ volume'[view] = 0]_vars
    /\ [][(Timeout \/ Ack) => UNCHANGED anaVars]_vars

\* C18: in every reachable analyzer state cleanupAudioAnalysis is defined,
\* running it twice gives what running it once gives, and what it gives has
\* no frame of the analyzer pending, no node or context referenced and the
\* reading 0; a stop call on an analyzer already cleaned changes nothing.
C18_CleanupIdempotent ==
    /\ [](LET c == CleanedUp(Analyzer(view))
          IN  /\ CleanedUp(c) = c
              /\ c.animationFrameRef = 0
              /\ animationFrameRef[view] \notin c.raf
              /\ c.sourceRef = 0
              /\ c.analyserRef = 0
              /\ c.audioContextRef = 0
              /\ c.volume = 0)
    /\ [][(StopCall /\ Analyzer(view) = CleanedUp(Analyzer(view))) => UNCHANGED anaVars]_vars

\* A stop call has run cleanupAudioAnalysis where no recorder was ever built
\* (the start failed after startAnalysis): a context is closed and the
\* analyzer is as one more cleanup would leave it.
C18_Witness ==
    /\ lastOp = "resolveNull"
    /\ \E n \in Sessions : ctx[n] = "closed"
    /\ Analyzer(view) = CleanedUp(Analyzer(view))

\* The outcome class the caller of the route sees in a response.
OutcomeClass(resp) ==
    IF resp.status = 200 THEN "Success"
    ELSE IF resp.status = 400 THEN "InvalidInput"
    ELSE IF resp.kind = "config" THEN "ConfigurationError"
    ELSE "UpstreamError"

\* The outcome class the taxonomy gives a request.
ExpectedClass(p) ==
    IF ~p.key THEN "ConfigurationError"
    ELSE IF ~(p.formOk /\ p.audio = "file") THEN "InvalidInput"
    ELSE IF p.cap \in {"throws", "garbage", "null"} THEN "UpstreamError"
    ELSE "Success"

\* C19: every request the route has answered got the outcome the taxonomy
\* gives it, with at most one capability call, and none when the outcome is
\* ConfigurationError or InvalidInput.
C19_RouteTaxonomy ==
    \A i \in DOMAIN posts :
        /\ OutcomeClass(posts[i].resp) = ExpectedClass(posts[i])
        /\ posts[i].resp.calls <= 1
        /\ ExpectedClass(posts[i]) \in {"ConfigurationError", "InvalidInput"}
               => posts[i].resp.calls = 0

IsPrefix(a, b) == Len(a) <= Len(b) /\ \A i \in DOMAIN a : a[i] = b[i]

\* C20: through every step of a mounted view the transcript it held is a
\* prefix of the transcript it holds next, and an event whose id is new to a
\* live handler's view is put last.
C20_TranscriptOnlyGrows ==
    /\ [][(mounted /\ mounted') => IsPrefix(messages, messages')]_vars
    /\ [][\A e \in Events :
            (/\ ChannelEvent(e)
             /\ ~HasId(messages, e.id)
             /\ \E i \in DOMAIN handlers : HandlerLive(handlers[i]))
            => messages' = Append(messages, NewMessage(e))]_vars

\* An event has just been added behind an entry stored before it.
C20_Witness ==
    /\ mounted
    /\ lastOp = "event"
    /\ Len(messages) = MaxIds
    /\ rejected = Len(handlers) - 1

\* C21: while a permission or device error is set the control takes no start
\* command; when a submission of the mounted view fails upstream the
\* processing flag is cleared and no recorder error is set by it, and a start
\* command is then taken unless a recorder error is set or a session records.
C21_ErrorBlocksStart ==
    /\ [][permissionError[view] # "none" => ~StartClick]_vars
    /\ [][(Respond /\ lastOp' = "resumeFail" /\ mounted')
            => (~isProcessing' /\ permissionError' = permissionError)]_vars
    /\ []((/\ lastOp = "resumeFail"
           /\ mounted
           /\ permissionError[view] = "none"
           /\ ~isRecording[view]
           /\ \E n \in Sessions : acq[n] = "idle")
          => ENABLED StartClick)

\* A submission has just failed upstream with no recorder error set and the
\* next start command can be taken.
C21_Witness ==
    /\ lastOp = "resumeFail"
    /\ mounted
    /\ permissionError[view] = "none"
    /\ ~isRecording[view]
    /\ ~isProcessing
    /\ ENABLED StartClick

\* C22: while the recorder of a session records and the analyzer built for
\* it is the one the hook holds, its updateVolume loop goes on: from every
\* such state a frame of the loop gets requested again unless the recorder
\* stops recording, also when the context started suspended and resumed later.
C22_TicksContinue ==
    \A n \in Sessions :
        (/\ rec[n].state = "recording"
         /\ sourceRef[rec[n].view] = n
         /\ audioContextRef[rec[n].view] = n)
            ~> (n \in raf \/ rec[n].state # "recording")

\* C23: the stop event of a recorder whose promise has settled already (by
\* the timer) leaves a later session alone: a later session that holds its
\* stream with isRecording true still does so after it, and after it
\* isRecording is true exactly when some stream is held.
C23_LateAckLeavesLaterSession ==
    /\ [][\A r \in Sessions :
            (lastOp' = "lateAck" /\ lastRec' = r)
            => \A n \in Sessions :
                   (n > r /\ acq[n] = "live" /\ isRecording[rec[n].view])
                   => (isRecording'[rec[n].view] /\ acq'[n] = "live")]_vars
    /\ [](lastOp = "lateAck" => (isRecording[view] <=> HeldStreams # {}))

\* C24: whatever the interleaving, the payload a stopRecording promise
\* settles with holds only chunks of the recorder that call stopped, and
\* while the promise on a recorder waits the buffer only grows (no start
\* empties it).
C24_PayloadIsolation ==
    /\ [](lastOp \in Resolving => \A i \in DOMAIN payload : payload[i].rec = lastRec)
    /\ [][\A r \in Sessions :
            (rec[r].wait = "pending" /\ rec'[r].wait = "pending")
            => IsPrefix(chunksRef[rec[r].view], chunksRef'[rec[r].view])]_vars

\* C25: an event whose entry is stored in the transcript already is not
\* played when it is delivered again, and one delivery plays at most once.
C25_PlaybackOncePerId ==
    /\ [][\A e \in Events :
            (/\ ChannelEvent(e)
             /\ \E i \in DOMAIN messages : messages[i] = NewMessage(e))
            => spoke' = <<>>]_vars
    /\ [](lastOp = "event" => Len(spoke) <= 1)

\* A stream that is held while no stop of its recorder is under way.
HeldWithoutStop == {n \in HeldStreams : ~rec[n].timer /\ ~rec[n].ack}

\* C26: once the room view is torn down no stream stays held unless a stop
\* of its recorder is under way, no getUserMedia call of the view is left to
\* be granted into a held stream, no AudioContext stays open and no
\* updateVolume frame stays pending.
C26_TeardownReleasesDevice ==
    ~mounted => /\ HeldWithoutStop = {}
                /\ OpenContexts = {}
                /\ raf = {}

\* C27: a startAnalysis that throws does not stop capture. A grant whose
\* analyzer construction failed and whose recorder constructs and starts
\* leaves the session recording with its stream held, the reading as it was
\* and no updateVolume frame requested; the chunks of such a session are
\* buffered; when its stopRecording promise settles its tracks are stopped and
\* the payload is the buffer; no updateVolume frame ever runs for it, and
\* while every stream granted so far went to such a session the reading is 0.
C27_AnalyzerFailureKeepsCapture ==
    /\ [][\A n \in Sessions, fail \in AnalysisFailures \ {"none"},
             susp \in BOOLEAN, sample \in Samples :
            AcquireGrant(n, fail, susp, sample, "ok")
            => /\ rec'[n].state = "recording"
               /\ acq'[n] = "live"
               /\ isRecording'[rec[n].view]
               /\ volume' = volume
               /\ n \notin raf']_vars
    /\ [][\A r \in Sessions, size \in ChunkSizes :
            (DataAvailable(r, size) /\ rec[r].ana # "none" /\ size > 0)
            => chunksRef'[rec[r].view] = Append(chunksRef[rec[r].view], NextChunk(r, size))]_vars
    /\ [][\A n \in Sessions, sample \in Samples :
            Tick(n, sample) => rec[n].ana = "none"]_vars
    /\ []((lastOp \in Resolving /\ rec[lastRec].ana # "none")
            => (acq[lastRec] = "stopped" /\ payload = chunksRef[rec[lastRec].view]))
    /\ []((\A m \in Sessions :
               acq[m] \in {"live", "stopped"}
               => (rec[m].state # "none" /\ rec[m].ana # "none"))
            => volume[view] = 0)

\* The stopRecording promise of a session whose analyzer construction had
\* failed has settled with a buffered chunk of that session, its tracks are
\* stopped and the reading is 0.
C27_Witness ==
    /\ lastOp \in Resolving
    /\ rec[lastRec].ana # "none"
    /\ payload # <<>>
    /\ payload = EmittedNonEmpty(lastRec)
    /\ acq[lastRec] = "stopped"
    /\ volume[view] = 0

\* C28: every success response the route has given carries an originalText
\* and a translatedText, and a reply of the capability that parses but lacks
\* one of them was not answered with success.
C28_SuccessHasBothFields ==
    \A i \in DOMAIN posts :
        /\ ResponseOk(posts[i].resp.status)
               => (posts[i].resp.original /\ posts[i].resp.translated)
        /\ posts[i].cap \in {"empty", "noOriginal", "noTranslated"}
               => ~ResponseOk(posts[i].resp.status)

\* C29: for every sample of bytes the reading updateVolume publishes is an
\* integer of 0..100 and equals min(100, round(mean / 60 * 100)); it is 0 for
\* the all-zero sample and 100 for every mean of 60 or more.
C29_VolumeFormula ==
    lastOp = "volume" =>
        /\ volume[view] \in 0..100
        /\ volume[view] = Min(100, Round(Sum(dataArray) * 100, Len(dataArray) * 60))
        /\ (\A i \in DOMAIN dataArray : dataArray[i] = 0) => volume[view] = 0
        /\ Sum(dataArray) >= 60 * Len(dataArray) => volume[view] = 100

====
